---- MODULE Spec2Model ----
(***************************************************************************)
(* The request pipeline of the Spring Test App: APIClient and               *)
(* APIClientWorker (utils/api_client.py), the text functions they call      *)
(* (utils/text_parser.py), and the two callers that drive them,            *)
(* SequenceGenerator (services/sequence_generator.py) and ChatPanel        *)
(* (ui/chat_panel.py).                                                     *)
(*                                                                         *)
(* Text is a sequence of fragments: a Python str is modelled as the        *)
(* sequence of the pieces it is the concatenation of, the empty str as     *)
(* <<>>, and "x in s" as "x is a contiguous run of fragments of s".        *)
(* A blank between words is the fragment " ".                              *)
(***************************************************************************)
EXTENDS Integers, Sequences, FiniteSets, TLC

\* ------------------------------------------------------------------ bounds
\* Number of operations dispatched in one run of the application.
MaxOps == 1
\* Number of workers one APIClient creates when operations supersede each
\* other (the concurrent specification).
MaxWorkers == 2
\* Largest max_retries a caller of APIClient.generate_sequence_async passes.
MaxRetriesBound == 3

\* --------------------------------------------------------- program constants
\* max_retries: int = 3 (the default of generate_sequence_async)
DEFAULT_MAX_RETRIES == 3
\* if len(self.api_client.chat_memory) > 10
MEMORY_LIMIT == 10
\* self.api_client.chat_memory[-3:]
CONTEXT_ENTRIES == 3
\* if len(self.history) > 10
HISTORY_LIMIT == 10

\* --------------------------------------------------------------- str helpers
\* s[a:b] of a fragment sequence, 1-based and inclusive.
Slice(s, a, b) == [i \in 1..(b - a + 1) |-> s[a + i - 1]]

\* "needle in hay" of Python on two strs.
Contains(hay, needle) ==
    \E i \in 0..(Len(hay) - Len(needle)) :
        \A j \in 1..Len(needle) : hay[i + j] = needle[j]

\* str.lower() on the fragments the model uses.
LowerFragment(f) ==
    CASE f = "Generate" -> "generate"
      [] f = "NEW" -> "new"
      [] f = "Sequence" -> "sequence"
      [] f = "Tension" -> "tension"
      [] f = "COMPRESS" -> "compress"
      [] f = "PRESS" -> "press"
      [] f = "Pull" -> "pull"
      [] OTHER -> f

lower(s) == [i \in 1..Len(s) |-> LowerFragment(s[i])]

\* The last n entries of a list: lst[-n:].
LastN(lst, n) ==
    IF Len(lst) <= n THEN lst ELSE Slice(lst, Len(lst) - n + 1, Len(lst))

\* dict as a sequence of <<key, value>> pairs in insertion order.
Keys(d) == {d[i][1] : i \in 1..Len(d)}
HasKey(d, k) == k \in Keys(d)
Get(d, k, default) ==
    IF HasKey(d, k)
    THEN d[CHOOSE i \in 1..Len(d) : d[i][1] = k][2]
    ELSE default

\* --------------------------------------------------------------- utterances
\* What the user types. No utterance holds a digit or one of the words part,
\* model, customer, so that no PARAMETER_PATTERNS entry matches any of them.
Utterances ==
    { <<"how", " ", "does", " ", "scragging", " ", "work">>,
      <<"NEW", " ", "Sequence", " ", "in", " ", "Tension">> }

\* ------------------------------------------------------- extract_parameters
compression_words ==
    {"compress", "compression", "comp", "compressive",
     "pushing", "push", "pressing", "press"}
tension_words ==
    {"tens", "tension", "extension", "extend", "tensile", "extending",
     "pulling", "pull", "stretching", "stretch"}

\* The fragments made of characters that are not word characters (\W); a
\* fragment of letters, digits or underscores is a word fragment.
NonWord == {" ", "-", "."}

\* re.search(r'\b(?:w1|w2|...)\b', text, re.IGNORECASE): a fragment that is one
\* of the words, with no word fragment glued to either side of it.
SearchWord(words, text) ==
    \E i \in 1..Len(text) :
        /\ LowerFragment(text[i]) \in words
        /\ (i = 1 \/ text[i - 1] \in NonWord)
        /\ (i = Len(text) \/ text[i + 1] \in NonWord)

\* TestTypeOf with the default of earlier versions: Compression when no
\* keyword class matches.
TestTypeOf_Default(text) ==
    IF SearchWord(tension_words, text) /\ ~SearchWord(compression_words, text)
    THEN << <<"Test Type", <<"Tension">> >> >>
    ELSE << <<"Test Type", <<"Compression">> >> >>

TestTypeOf(text) ==
    IF SearchWord(compression_words, text)
    THEN << <<"Test Type", <<"Compression">> >> >>
    ELSE IF SearchWord(tension_words, text)
         THEN << <<"Test Type", <<"Tension">> >> >>
         ELSE << >>

\* The parameter set of an utterance: Test Type when a keyword class
\* matches, then the Timestamp. It never holds a 'prompt' key.
extract_parameters(text) ==
    TestTypeOf(text) \o << <<"Timestamp", <<"now">> >> >>

\* ---------------------------------------------------- format_parameter_text
\* One "Key: value" line per parameter, the Timestamp skipped; the lines are
\* kept as a sequence instead of being joined with "\n".
RECURSIVE format_parameter_text(_)
format_parameter_text(parameters) ==
    IF parameters = << >> THEN << >>
    ELSE LET head == parameters[1]
             rest == format_parameter_text(Tail(parameters))
         IN IF head[1] = "Timestamp" THEN rest
            ELSE << <<head[1], ": ">> \o head[2] >> \o rest

\* ------------------------------------------------------- previous context
\* str.split("\n"): the lines of a text, the empty text being one empty line.
LinesOf(text) == IF text = << >> THEN << << >> >> ELSE text

\* "\n".join(entries), as the lines of the result.
RECURSIVE JoinLines(_)
JoinLines(entries) ==
    IF entries = << >> THEN << >>
    ELSE LinesOf(Head(entries)) \o JoinLines(Tail(entries))

\* ContextOf with the first entries of the memory instead of the last.
ContextOf_First(memory) ==
    IF memory = << >> THEN << >>
    ELSE << << >>, <<"Previous context:">> >>
            \o JoinLines(IF Len(memory) <= CONTEXT_ENTRIES THEN memory
                         ELSE Slice(memory, 1, CONTEXT_ENTRIES))

\* context, as the lines it adds behind the last line of the prompt: none
\* for an empty memory, else an empty line, the heading and the joined last
\* entries of the memory.
ContextOf(memory) ==
    IF memory = << >> THEN << >>
    ELSE << << >>, <<"Previous context:">> >>
            \o JoinLines(LastN(memory, CONTEXT_ENTRIES))

\* ------------------------------------------------------ generation intent
generation_indicators ==
    << <<"generate">>, <<"create">>, <<"make">>,
       <<"new", " ", "sequence">>, <<"test", " ", "sequence">>,
       <<"spring", " ", "test">>, <<"compression", " ", "test">>,
       <<"tension", " ", "test">>, <<"free", " ", "length">>,
       <<"wire", " ", "diameter">>, <<"outer", " ", "diameter">>,
       <<"spring", " ", "rate">> >>

\* any(indicator in text.lower() for indicator in generation_indicators)
HasIndicator(text) ==
    \E k \in 1..Len(generation_indicators) :
        Contains(lower(text), generation_indicators[k])

original_prompt(parameters) == Get(parameters, "prompt", << >>)

is_generation_request_of(parameters) ==
    HasIndicator(original_prompt(parameters))

\* ------------------------------------------------------- command vocabulary
\* COMMANDS, in declaration order: <<code, description>>.
COMMANDS ==
    << <<"ZF", "Zero Force">>, <<"ZD", "Zero Displacement">>,
       <<"TH", "Threshold (Search Contact)">>, <<"LP", "Loop">>,
       <<"Mv(P)", "Move to Position">>, <<"Calc", "Formula Calculation">>,
       <<"TD", "Time Delay">>, <<"PMsg", "User Message">>,
       <<"Fr(P)", "Force at Position">>, <<"FL(P)", "Measure Free Length">>,
       <<"Scrag", "Scragging">>, <<"SR", "Spring Rate">>,
       <<"PkF", "Measure Peak Force">>, <<"PkP", "Measure Peak Position">>,
       <<"Po(F)", "Position at Force">>, <<"Po(PkF)", "Position at Peak Force">>,
       <<"Mv(F)", "Move to Force">>, <<"PUi", "User Input">> >>

\* ---------------------------------------------------------- response texts
\* The content of a completion. kind says how the text is laid out:
\*   "empty"     the empty str
\*   "prose"     words only, no bracket and no brace
\*   "array"     a JSON array literal and nothing else
\*   "fence"     ```json\n<array>\n```
\*   "embedded"  words, a JSON array literal, words
\*   "broken"    a bracketed array literal that is not valid JSON
\*   "object"    a JSON object literal without brackets
\*   "empty_fence"  ```json\n\n``` with nothing between the markers
\* elems are the elements of the array, each [type, items]: an "object" with
\* its items in key order, or a "number". error is the error phrases of the
\* text in text order, each <<pattern, capture>>: the entry of error_patterns
\* the phrase matches and what its group captures.
Element(type, items) == [type |-> type, items |-> items]
Text(kind, elems, error) == [kind |-> kind, elems |-> elems, error |-> error]

EmptyText == Text("empty", << >>, << >>)

GoodRow ==
    << <<"Row", <<"R00">> >>, <<"CMD", <<"ZF">> >>,
       <<"Description", <<"Zero Force">> >>, <<"Condition", << >> >>,
       <<"Unit", << >> >>, <<"Tolerance", << >> >>,
       <<"Speed rpm", <<"50">> >> >>
BackfillRow ==
    << <<"Row", <<"R01">> >>, <<"Cmd", << >> >>,
       <<"Description", <<"Apply ", "Threshold (Search Contact)">> >>,
       <<"Speed", <<"50">> >> >>

Texts ==
    { EmptyText,
      Text("prose", << >>, << <<"message", "try again later">>,
                              <<"error", "quota exceeded">> >>),
      Text("fence", << Element("object", BackfillRow),
                       Element("object", GoodRow) >>, << >>),
      Text("array", << Element("number", << >>) >>, << >>) }

\* bool(text): a str is true unless it is empty.
Truthy(text) == text.kind # "empty"

\* ------------------------------------------------ extract_command_sequence
\* The pieces a text is the concatenation of, in order: "words" is prose
\* without a bracket, a brace or a backtick, "[array]" the literal of the
\* array text.elems, "[broken]" a bracketed literal that is not JSON,
\* "{object}" an object literal; FENCE_OPEN is the line that opens a json
\* code fence and FENCE_CLOSE the line break and marker that close it.
FENCE_OPEN == "(fence json)"
FENCE_CLOSE == "(fence end)"
Layout(text) ==
    CASE text.kind = "prose" -> <<"words">>
      [] text.kind = "array" -> <<"[array]">>
      [] text.kind = "fence" -> <<FENCE_OPEN, "[array]", FENCE_CLOSE>>
      [] text.kind = "embedded" -> <<"words", "[array]", "words">>
      [] text.kind = "broken" -> <<"[broken]">>
      [] text.kind = "object" -> <<"{object}">>
      [] text.kind = "empty_fence" -> <<FENCE_OPEN, FENCE_CLOSE>>
      [] OTHER -> << >>

IsBracketed(piece) == piece \in {"[array]", "[broken]"}
Min(S) == CHOOSE x \in S : \A y \in S : x <= y
Max(S) == CHOOSE x \in S : \A y \in S : x >= y

\* re.search(r'```json\n(.*?)\n```|(\[.*\])', text, re.DOTALL): the places
\* where an alternative matches, the first after an opening marker that has
\* a closing marker behind it, the second at a bracket.
ClosingAfter(pieces, i) == {j \in (i + 1)..Len(pieces) : pieces[j] = FENCE_CLOSE}
FenceAt(pieces, i) == pieces[i] = FENCE_OPEN /\ ClosingAfter(pieces, i) # {}
MatchStarts(pieces) ==
    {i \in 1..Len(pieces) : FenceAt(pieces, i) \/ IsBracketed(pieces[i])}

\* The match at place i. group1 is what the lazy group of the fence captures
\* (up to the first closing marker), group2 what the greedy bracket group
\* captures (up to the last bracket); the group of the alternative that did
\* not match is None, which none1 and none2 tell.
MatchAt(pieces, i) ==
    IF FenceAt(pieces, i)
    THEN [found |-> TRUE, none1 |-> FALSE,
          group1 |-> Slice(pieces, i + 1, Min(ClosingAfter(pieces, i)) - 1),
          none2 |-> TRUE, group2 |-> << >>]
    ELSE [found |-> TRUE, none1 |-> TRUE, group1 |-> << >>,
          none2 |-> FALSE,
          group2 |-> Slice(pieces, i,
                       Max({k \in i..Len(pieces) : IsBracketed(pieces[k])}))]

\* The leftmost match, if there is one.
json_match(pieces) ==
    IF MatchStarts(pieces) = {}
    THEN [found |-> FALSE, none1 |-> TRUE, group1 |-> << >>,
          none2 |-> TRUE, group2 |-> << >>]
    ELSE MatchAt(pieces, Min(MatchStarts(pieces)))

\* json_match.group(2), whatever group 1 is.
Group2Of(pieces, m) ==
    IF ~m.found THEN [none |-> FALSE, content |-> pieces]
    ELSE [none |-> m.none2, content |-> m.group2]

\* json_match.group(1) or json_match.group(2) when there is a match, else
\* the text: none is TRUE when that is None (an empty group 1 is false, and
\* group 2 of a fence match is None).
Group1Or2Of(pieces, m) ==
    IF m.found /\ ~m.none1 /\ m.group1 # << >>
    THEN [none |-> FALSE, content |-> m.group1]
    ELSE Group2Of(pieces, m)

\* json_content with group 2 alone: the capture of the fence is dropped.
json_content_Group2(pieces) == Group2Of(pieces, json_match(pieces))

\* json_content with group 1 alone: no "or json_match.group(2)".
json_content_Group1(pieces) ==
    IF json_match(pieces).found
    THEN [none |-> json_match(pieces).none1, content |-> json_match(pieces).group1]
    ELSE [none |-> FALSE, content |-> pieces]

\* json_content, before the markers are stripped from it.
json_content(pieces) == Group1Or2Of(pieces, json_match(pieces))

\* re.sub(r'^```.*|```$', '', json_content, flags=re.MULTILINE).strip()
StripFences(content) ==
    SelectSeq(content, LAMBDA piece : piece \notin {FENCE_OPEN, FENCE_CLOSE})

\* json.loads: what it returns for a content, by type, or that it raises.
Loads(content) ==
    IF content = <<"[array]">> THEN "list"
    ELSE IF content = <<"{object}">> THEN "dict"
    ELSE "JSONDecodeError"

\* re.search(r'\[(.*)\]', json_content, re.DOTALL), put back in brackets:
\* from the first bracket of the content to its last, << >> without a match.
BracketsOf(content) == {i \in 1..Len(content) : IsBracketed(content[i])}
cleaned_json(content) ==
    IF BracketsOf(content) = {} THEN << >>
    ELSE Slice(content, Min(BracketsOf(content)), Max(BracketsOf(content)))

\* What the parsing hands to the loop over the rows when json.loads returned
\* a value of the type, and when both tries failed.
Parsed(text, type) ==
    [ok |-> TRUE, raised |-> FALSE, isdict |-> type = "dict",
     data |-> IF type = "list" THEN text.elems ELSE << >>]
NotParsed(raised) ==
    [ok |-> FALSE, raised |-> raised, isdict |-> FALSE, data |-> << >>]

\* json.loads on the stripped content, and on the bracketed part of it when
\* that fails.
LoadsTwice(text, content) ==
    IF Loads(content) # "JSONDecodeError" THEN Parsed(text, Loads(content))
    ELSE IF Loads(cleaned_json(content)) # "JSONDecodeError"
         THEN Parsed(text, Loads(cleaned_json(content)))
         ELSE NotParsed(FALSE)

\* json_content is None: re.sub answers with a TypeError.
LoadsContent(text, jc) ==
    IF jc.none THEN NotParsed(TRUE) ELSE LoadsTwice(text, StripFences(jc.content))

\* The parsing of extract_command_sequence, up to the loop over the rows.
JsonLoads(text) == LoadsContent(text, json_content(Layout(text)))

\* LookupCode without the break: the last entry that matches wins.
LookupCode_Last(description, k) ==
    LET hits == {j \in k..Len(COMMANDS) :
                    \/ description = <<COMMANDS[j][2]>>
                    \/ Contains(description, <<COMMANDS[j][2]>>)}
    IN IF hits = {} THEN << >> ELSE <<COMMANDS[Max(hits)][1]>>

\* The first code of COMMANDS, from entry k on, whose description equals or
\* is contained in the description; << >> when there is none.
RECURSIVE LookupCode(_, _)
LookupCode(description, k) ==
    IF k > Len(COMMANDS) THEN << >>
    ELSE IF description = <<COMMANDS[k][2]>>
            \/ Contains(description, <<COMMANDS[k][2]>>)
         THEN <<COMMANDS[k][1]>>
         ELSE LookupCode(description, k + 1)

\* row[key] = value on a dict that holds the key.
SetKey(d, k, v) == [i \in 1..Len(d) |-> IF d[i][1] = k THEN <<k, v>> ELSE d[i]]

\* The body of "for row in data" on one dict row.
BackfillRowCode(row) ==
    IF (HasKey(row, "Cmd") /\ Get(row, "Cmd", << >>) = << >>)
       \/ (HasKey(row, "CMD") /\ Get(row, "CMD", << >>) = << >>)
    THEN LET cmd_key == IF HasKey(row, "Cmd") THEN "Cmd" ELSE "CMD"
             code == LookupCode(Get(row, "Description", << >>), 1)
         IN IF code = << >> THEN row ELSE SetKey(row, cmd_key, code)
    ELSE row

\* The result of extract_command_sequence: raised is TRUE when the call ends
\* in an exception that is not caught in it ('Cmd' in row on a number is a
\* TypeError); otherwise data is what it returns, and isdict tells a dict
\* (returned as it is, its keys being strs without 'Cmd') from a list.
extract_command_sequence(text) ==
    LET parsed == JsonLoads(text)
    IN IF ~parsed.ok
       THEN [raised |-> parsed.raised, isdict |-> FALSE, data |-> << >>]
       ELSE IF parsed.isdict
       THEN [raised |-> FALSE, isdict |-> TRUE, data |-> << >>]
       ELSE IF \E i \in 1..Len(parsed.data) : parsed.data[i].type = "number"
       THEN [raised |-> TRUE, isdict |-> FALSE, data |-> << >>]
       ELSE [raised |-> FALSE, isdict |-> FALSE,
             data |-> [i \in 1..Len(parsed.data) |->
                          BackfillRowCode(parsed.data[i].items)]]

\* ---------------------------------------------------- extract_error_message
\* error_patterns, in order, each named by the phrase it looks for.
error_patterns == <<"error", "message", "ERROR:", "Exception:">>

\* re.search(pattern, response_text): the phrases of the text that match
\* entry k of error_patterns, in text order.
MatchesOf(text, k) ==
    SelectSeq(text.error, LAMBDA phrase : phrase[1] = error_patterns[k])

\* The capture of the first pattern, in list order, that matches somewhere
\* in the text, "" when none does.
extract_error_message(text) ==
    LET hits == {k \in 1..Len(error_patterns) : MatchesOf(text, k) # << >>}
    IN IF hits = {} THEN "" ELSE MatchesOf(text, Min(hits))[1][2]

\* ------------------------------------------------------------- result table
required_columns ==
    <<"Row", "CMD", "Description", "Condition", "Unit", "Tolerance", "Speed rpm">>

\* A missing cell of pd.DataFrame(list of dicts).
NaN == <<"float('nan')">>

EmptyFrame == [columns |-> << >>, rows |-> << >>]
FrameIsEmpty(df) == df.rows = << >> \/ df.columns = << >>

\* The columns of pd.DataFrame(data): the keys of the rows.
FrameColumns(data) == UNION {Keys(data[i]) : i \in 1..Len(data)}

\* The column of the frame a required column is read from, after the two
\* renames.
SourceColumn(cols, col) ==
    CASE col = "CMD" /\ "Cmd" \in cols /\ "CMD" \notin cols -> "Cmd"
      [] col = "Speed rpm" /\ "Speed" \in cols /\ "Speed rpm" \notin cols -> "Speed"
      [] OTHER -> col

\* pd.DataFrame(data), the renames, the added columns and the reordering.
BuildFrame(data) ==
    LET cols == FrameColumns(data)
        cell(row, col) ==
            LET src == SourceColumn(cols, col)
            IN IF src \in cols THEN Get(row, src, NaN) ELSE << >>
    IN [columns |-> required_columns,
        rows |-> [i \in 1..Len(data) |->
                    [c \in 1..Len(required_columns) |->
                        <<required_columns[c], cell(data[i], required_columns[c])>>]]]

\* pd.DataFrame([{"Row": "CHAT", "CMD": "CHAT", "Description": response_text}])
MessageFrame(response_text) ==
    [columns |-> <<"Row", "CMD", "Description">>,
     rows |-> << [Row |-> "CHAT", CMD |-> "CHAT", Description |-> response_text] >>]

\* =================================================================== state
Ops == 1..MaxWorkers

\* What a caller of APIClient.generate_sequence_async passes as max_retries:
\* a single attempt, the default, and the largest value of the model.
RetryChoices == {1, DEFAULT_MAX_RETRIES, MaxRetriesBound}

\* Parameter sets a caller of the API client builds itself: the extracted
\* parameters of a text together with the text under the key 'prompt'.
ApiPrompts ==
    { <<"Generate", " ", "a", " ", "compress", " ", "test">>,
      <<"how", " ", "does", " ", "scragging", " ", "work">> }
ApiParameters == {extract_parameters(u) \o << <<"prompt", u>> >> : u \in ApiPrompts}

\* The ways one send attempt ends: the call raises a transport error
\* (timeout, connection error, non-2xx status), the body is not JSON, the
\* body is a JSON object without 'choices', its 'choices' is an empty list,
\* or it is well formed and carries a content text. On a body that is not
\* JSON response.json() raises requests.exceptions.JSONDecodeError, which is
\* a RequestException (requests >= 2.27), or the plain json.JSONDecodeError
\* (older requests): "bad_json" stands for the first, "bad_json_legacy" for
\* the second.
Bodies ==
    { [kind |-> k, content |-> EmptyText] :
        k \in {"transport", "bad_json", "bad_json_legacy", "no_choices",
               "empty_choices"} }
    \cup { [kind |-> "ok", content |-> t] : t \in Texts }

VARIABLES
    chat_memory,        \* APIClient.chat_memory
    request_history,    \* APIClient.request_history: the op of each payload
    last_raw_response,  \* APIClient.last_raw_response
    current_worker,     \* APIClient.current_worker (and current_thread): 0 is None
    workers,            \* the APIClientWorker of each op and where its run() is
    emitted,            \* per op: the signals the worker has emitted, in order
    main_queue,         \* finished signals queued to the foreground thread
    last_parameters,    \* SequenceGenerator.last_parameters: the op they came with, 0 is {}
    last_sequence,      \* SequenceGenerator.last_sequence
    history,            \* SequenceGenerator.history
    is_generating,      \* ChatPanel.is_generating
    dispatched,         \* number of workers created so far
    obs,                \* per op: what has happened to it (history variables)
    parser,             \* a response text on its way through the parser and
                        \* the table building of run(), followed on its own
    extraction          \* a text on its way through extract_parameters,
                        \* followed on its own

vars ==
    <<chat_memory, request_history, last_raw_response, current_worker, workers,
      emitted, main_queue, last_parameters, last_sequence, history,
      is_generating, dispatched, obs, parser, extraction>>

NoSequence == [from |-> 0, parameters |-> 0, rows |-> << >>]

\* A worker that does not exist yet.
NoWorker ==
    [pc |-> "unborn", parameters |-> << >>, max_retries |-> 0,
     is_cancelled |-> FALSE, is_generation_request |-> FALSE,
     parameter_text |-> << >>, context |-> << >>, attempt |-> 0,
     response_text |-> EmptyText, error_message |-> "", callback |-> "none",
     cut |-> << >>]

\* APIClientWorker.__init__
NewWorker(parameters, max_retries, callback) ==
    [NoWorker EXCEPT !.pc = "start", !.parameters = parameters,
                     !.max_retries = max_retries, !.callback = callback]

\* What is noted about an op as it runs:
\*   sends            send attempts issued
\*   outcomes         how each completed attempt ended (the kind of its body)
\*   memory_writes    steps of the worker that changed chat_memory
\*   memory_growth    by how many entries those steps made chat_memory longer
\*   extract_calls    calls of extract_command_sequence
\*   sleeps           the backoff sleeps, in seconds
\*   utterance        the text the user or caller gave
\*   cancelled_early  cancel() came while the worker was running and no send
\*                    attempt of it had completed
\*   memory_at_dispatch  chat_memory when the op was dispatched
\*   append_rank      the how-manieth append to chat_memory the worker's was
\*                    (0: it has not appended)
NoObs ==
    [sends |-> 0, outcomes |-> << >>, memory_writes |-> 0, memory_growth |-> 0,
     extract_calls |-> 0, sleeps |-> << >>, utterance |-> << >>,
     cancelled_early |-> FALSE, memory_at_dispatch |-> << >>,
     append_rank |-> 0]

\* No response text is being followed on its own.
NoParse ==
    [stage |-> "idle", text |-> EmptyText,
     result |-> [raised |-> FALSE, isdict |-> FALSE, data |-> << >>],
     df |-> EmptyFrame]

\* The objects after construction, but for the conversation memory.
Constructed ==
    /\ request_history = << >>
    /\ last_raw_response = EmptyText
    /\ current_worker = 0
    /\ workers = [w \in Ops |-> NoWorker]
    /\ emitted = [w \in Ops |-> << >>]
    /\ main_queue = << >>
    /\ last_parameters = 0
    /\ last_sequence = NoSequence
    /\ history = << >>
    /\ is_generating = FALSE
    /\ dispatched = 0
    /\ obs = [w \in Ops |-> NoObs]

\* The application after construction, nothing dispatched yet.
Idle == chat_memory = << >> /\ Constructed

\* No text is being followed through extract_parameters.
NoExtraction == [stage |-> "idle", text |-> << >>, parameters |-> << >>]

\* Nothing is followed on its own.
NothingFollowed == parser = NoParse /\ extraction = NoExtraction

Init == Idle /\ NothingFollowed

\* ---------------------------------------------------------------- signals
Signal(name, value) == [signal |-> name, value |-> value]

Running(w) == workers[w].pc \in {"start", "loop", "sending", "truncating", "finish"}
Ended(w) == workers[w].pc \in {"done", "crashed"}

\* The finished signals of a worker, in emission order.
FinishedOf(w) == SelectSeq(emitted[w], LAMBDA e : e.signal = "finished")
ProgressOf(w) == SelectSeq(emitted[w], LAMBDA e : e.signal = "progress")

\* =============================================================== APIClient
\* APIClientWorker.cancel on the current worker, as cancel_current_operation
\* calls it; the history variable notes whether no send attempt of the worker
\* had completed by then.
CancelledWorkers(ws) ==
    IF current_worker = 0 THEN ws
    ELSE [ws EXCEPT ![current_worker].is_cancelled = TRUE]

NoteCancel(o) ==
    IF current_worker = 0 \/ workers[current_worker].is_cancelled THEN o
    ELSE [o EXCEPT ![current_worker].cancelled_early =
                        /\ Running(current_worker)
                        /\ o[current_worker].outcomes = << >>]

\* APIClient.cancel_current_operation, called with an operation pending.
CancelCurrentOperation ==
    /\ current_worker # 0
    /\ workers' = CancelledWorkers(workers)
    /\ obs' = NoteCancel(obs)
    /\ current_worker' = 0
    /\ UNCHANGED <<extraction, parser, chat_memory, request_history, last_raw_response, emitted,
                   main_queue, last_parameters, last_sequence, history,
                   is_generating, dispatched>>

\* APIClient.generate_sequence_async: cancel the pending operation, create
\* the worker, connect the callback, start the thread.
StartWorker(w, parameters, max_retries, callback, utterance) ==
    /\ workers' = [CancelledWorkers(workers) EXCEPT
                      ![w] = NewWorker(parameters, max_retries, callback)]
    /\ obs' = [NoteCancel(obs) EXCEPT
                  ![w].utterance = utterance,
                  ![w].memory_at_dispatch = chat_memory]
    /\ current_worker' = w
    /\ dispatched' = w

\* A caller of the API client dispatches an operation with its own callback.
GenerateSequenceAsync(parameters, max_retries) ==
    /\ dispatched < MaxOps
    /\ StartWorker(dispatched + 1, parameters, max_retries, "caller",
                   original_prompt(parameters))
    /\ UNCHANGED <<extraction, parser, chat_memory, request_history, last_raw_response, emitted,
                   main_queue, last_parameters, last_sequence, history,
                   is_generating>>

\* ======================================================= SequenceGenerator
\* SequenceGenerator.generate_sequence_async: remember the parameters and
\* dispatch with the default max_retries and its own callbacks.
SequenceGeneratorDispatch(parameters, utterance) ==
    /\ last_parameters' = dispatched + 1
    /\ StartWorker(dispatched + 1, parameters, DEFAULT_MAX_RETRIES,
                   "sequence_generator", utterance)

\* SequenceGenerator._on_sequence_generated: the TestSequence it builds, or
\* NoSequence (None) for an empty frame.
SequenceFor(event) ==
    IF FrameIsEmpty(event.df) THEN NoSequence
    ELSE [from |-> event.op, parameters |-> last_parameters, rows |-> event.df.rows]

\* self.history.append(sequence), kept to its last 10 entries
HistoryWith(sequence) == LastN(Append(history, sequence), HISTORY_LIMIT)

\* =============================================================== ChatPanel
\* ChatPanel.on_generate_clicked with a non-empty input and no generation
\* in progress (otherwise it only shows a warning), while fewer than limit
\* operations have been dispatched.
GenerateClicked(user_input, limit) ==
    /\ user_input # << >>
    /\ ~is_generating
    /\ dispatched < limit
    /\ is_generating' = TRUE
    /\ SequenceGeneratorDispatch(extract_parameters(user_input), user_input)
    /\ UNCHANGED <<extraction, parser, chat_memory, request_history, last_raw_response, emitted,
                   main_queue, last_sequence, history>>

OnGenerateClicked(user_input) == GenerateClicked(user_input, MaxOps)

\* ChatPanel.on_cancel_clicked while a generation is in progress.
OnCancelClicked ==
    /\ is_generating
    /\ workers' = CancelledWorkers(workers)
    /\ obs' = NoteCancel(obs)
    /\ current_worker' = 0
    /\ is_generating' = FALSE
    /\ UNCHANGED <<extraction, parser, chat_memory, request_history, last_raw_response, emitted,
                   main_queue, last_parameters, last_sequence, history,
                   dispatched>>

\* The foreground thread takes the next queued finished signal:
\* SequenceGenerator._on_sequence_generated, whose sequence_generated signal
\* runs ChatPanel.on_sequence_generated_async.
DeliverFinished ==
    /\ main_queue # << >>
    /\ LET event == Head(main_queue)
           sequence == SequenceFor(event)
       IN /\ main_queue' = Tail(main_queue)
          /\ IF FrameIsEmpty(event.df)
             THEN UNCHANGED <<last_sequence, history>>
             ELSE /\ last_sequence' = sequence
                  /\ history' = HistoryWith(sequence)
          /\ is_generating' = FALSE
    /\ UNCHANGED <<extraction, parser, chat_memory, request_history, last_raw_response, current_worker,
                   workers, emitted, last_parameters, dispatched, obs>>

\* ======================================================== APIClientWorker
\* EmitFinished with the finished signal ahead of the signals that run()
\* emits on its way to it.
EmitFinished_First(w, signals, df, error_message) ==
    /\ emitted' = [emitted EXCEPT ![w] =
                      << Signal("finished", [df |-> df, error |-> error_message]) >> \o signals]
    /\ main_queue' =
          IF workers[w].callback = "sequence_generator"
          THEN Append(main_queue, [op |-> w, df |-> df, error |-> error_message])
          ELSE main_queue

\* self.finished.emit(df, error_message): the signal is recorded, and for a
\* worker connected to the SequenceGenerator it is queued to the foreground.
EmitFinished(w, signals, df, error_message) ==
    /\ emitted' = [emitted EXCEPT ![w] =
                      signals \o << Signal("finished", [df |-> df, error |-> error_message]) >>]
    /\ main_queue' =
          IF workers[w].callback = "sequence_generator"
          THEN Append(main_queue, [op |-> w, df |-> df, error |-> error_message])
          ELSE main_queue

\* run(), up to the retry loop: the prompt is composed from the parameters
\* and the last entries of the memory, the payload is logged, and the first
\* status and progress are emitted.
Prepare(w) ==
    /\ workers[w].pc = "start"
    /\ workers' = [workers EXCEPT
          ![w].parameter_text = format_parameter_text(workers[w].parameters),
          ![w].context = ContextOf(chat_memory),
          ![w].is_generation_request = is_generation_request_of(workers[w].parameters),
          ![w].pc = "loop"]
    /\ request_history' = Append(request_history, w)
    /\ emitted' = [emitted EXCEPT ![w] =
          @ \o << Signal("status", <<"Preparing request">>), Signal("progress", 10) >>]
    /\ UNCHANGED <<extraction, parser, chat_memory, last_raw_response, current_worker, main_queue,
                   last_parameters, last_sequence, history, is_generating,
                   dispatched, obs>>

\* The progress value of a send: 20 + (attempt * 15).
SendProgress(attempt) == 20 + (attempt * 15)

\* The top of one iteration of "for attempt in range(self.max_retries)":
\* the cancellation check, then the status and progress of the send, after
\* which the request is in flight.
LoopTop(w) ==
    /\ workers[w].pc = "loop"
    /\ IF workers[w].is_cancelled
       THEN /\ EmitFinished(w, emitted[w], EmptyFrame, "Operation cancelled")
            /\ workers' = [workers EXCEPT ![w].pc = "done"]
            /\ UNCHANGED obs
       ELSE /\ emitted' = [emitted EXCEPT ![w] =
                  @ \o << Signal("status", <<"Sending request", workers[w].attempt + 1,
                                              workers[w].max_retries>>),
                          Signal("progress", SendProgress(workers[w].attempt)) >>]
            /\ workers' = [workers EXCEPT ![w].pc = "sending"]
            /\ obs' = [obs EXCEPT ![w].sends = @ + 1]
            /\ UNCHANGED main_queue
    /\ UNCHANGED <<extraction, parser, chat_memory, request_history, last_raw_response, current_worker,
                   last_parameters, last_sequence, history, is_generating,
                   dispatched>>

\* The exception the body of the try block ends in for a response, "none"
\* when it runs to its break. A body that is not JSON makes response.json()
\* raise; 'choices' missing is a KeyError, 'choices' empty an IndexError.
ExceptionOf(body) ==
    CASE body.kind = "transport" -> "RequestException"
      [] body.kind = "bad_json" -> "requests.JSONDecodeError"
      [] body.kind = "bad_json_legacy" -> "JSONDecodeError"
      [] body.kind = "no_choices" -> "KeyError"
      [] body.kind = "empty_choices" -> "IndexError"
      [] OTHER -> "none"

\* The except clause that takes an exception, in clause order:
\* "retry" for except RequestException, "break" for except (KeyError,
\* ValueError, json.JSONDecodeError), "uncaught" when no clause names it.
Handling(exception) ==
    CASE exception \in {"RequestException", "requests.JSONDecodeError"} -> "retry"
      [] exception \in {"KeyError", "ValueError", "JSONDecodeError"} -> "break"
      [] exception = "none" -> "none"
      [] OTHER -> "uncaught"

\* if attempt < self.max_retries - 1 and not self.is_cancelled
ShouldSleep(attempt, max_retries, is_cancelled) ==
    attempt < max_retries - 1 /\ ~is_cancelled

\* Backoff with a linear schedule: 1, 2, 3 seconds.
Backoff_Linear(attempt) == attempt + 1

\* backoff_time = 2 ** attempt
Backoff(attempt) == 2 ^ attempt

\* AfterRetry with the loop bound off by one: one iteration too many.
AfterRetry_OffByOne(attempt, max_retries) ==
    IF attempt + 1 <= max_retries THEN "loop" ELSE "finish"

\* Where run() is after an iteration that ended in a transport error: at the
\* top of the next iteration while range(max_retries) has one, else past the loop.
AfterRetry(attempt, max_retries) ==
    IF attempt + 1 < max_retries THEN "loop" ELSE "finish"

\* MemoryWith without the append: the memory is left as it is.
MemoryWith_NoAppend(memory, parameter_text) == memory

\* self.api_client.chat_memory.append(parameter_text)
MemoryWith(memory, parameter_text) == Append(memory, parameter_text)

\* self.api_client.chat_memory[-10:]
Truncated(memory) == LastN(memory, MEMORY_LIMIT)

\* The request in flight returns or raises, and the rest of the iteration
\* runs: the try block up to its break, or the except clause that takes the
\* exception (with its backoff sleep). chat_memory is shared by the worker
\* threads without a lock: when the memory has grown past its limit the
\* worker has read the slice it will keep, and the assignment of that slice
\* is a step of its own (Truncate), which other threads can precede.
Respond(w, body) ==
    /\ workers[w].pc = "sending"
    /\ LET wk == workers[w]
           how == Handling(ExceptionOf(body))
           sleeps == ShouldSleep(wk.attempt, wk.max_retries, wk.is_cancelled)
       IN
       /\ CASE how = "none" ->
               /\ emitted' = [emitted EXCEPT ![w] =
                     @ \o << Signal("status", <<"Processing response">>),
                             Signal("progress", 70) >>]
               /\ chat_memory' = MemoryWith(chat_memory, wk.parameter_text)
               /\ workers' = [workers EXCEPT
                     ![w].response_text = body.content,
                     ![w].cut = IF Len(chat_memory') > MEMORY_LIMIT
                                THEN Truncated(chat_memory') ELSE @,
                     ![w].pc = IF Len(chat_memory') > MEMORY_LIMIT
                               THEN "truncating" ELSE "finish"]
               /\ last_raw_response' = body.content
            [] how = "retry" ->
               /\ emitted' = [emitted EXCEPT ![w] =
                     @ \o << Signal("status", <<"Request error">>) >>
                       \o (IF sleeps
                           THEN << Signal("status", <<"Retrying in", Backoff(wk.attempt)>>) >>
                           ELSE << >>)]
               /\ workers' = [workers EXCEPT
                     ![w].error_message = "Request error",
                     ![w].attempt = @ + 1,
                     ![w].pc = AfterRetry(wk.attempt, wk.max_retries)]
               /\ UNCHANGED <<chat_memory, last_raw_response>>
            [] how = "break" ->
               /\ emitted' = [emitted EXCEPT ![w] =
                     @ \o << Signal("status", <<"Response parsing error">>) >>]
               /\ workers' = [workers EXCEPT
                     ![w].error_message = "Response parsing error",
                     ![w].pc = "finish"]
               /\ UNCHANGED <<chat_memory, last_raw_response>>
            [] OTHER ->
               /\ workers' = [workers EXCEPT ![w].pc = "crashed"]
               /\ UNCHANGED <<emitted, chat_memory, last_raw_response>>
       /\ obs' = [obs EXCEPT
             ![w].outcomes = Append(@, body.kind),
             ![w].memory_writes = IF chat_memory' # chat_memory THEN @ + 1 ELSE @,
             ![w].memory_growth = @ + Len(chat_memory') - Len(chat_memory),
             ![w].append_rank =
                 IF how = "none"
                 THEN 1 + Cardinality({v \in Ops : obs[v].append_rank > 0})
                 ELSE @,
             ![w].sleeps = IF how = "retry" /\ sleeps
                           THEN Append(@, Backoff(wk.attempt)) ELSE @]
    /\ UNCHANGED <<extraction, parser, request_history, current_worker, main_queue, last_parameters,
                   last_sequence, history, is_generating, dispatched>>

\* self.api_client.chat_memory = <the slice read before>: the assignment
\* that ends the truncation of a memory grown past its limit.
Truncate(w) ==
    /\ workers[w].pc = "truncating"
    /\ chat_memory' = workers[w].cut
    /\ workers' = [workers EXCEPT ![w].pc = "finish"]
    /\ obs' = [obs EXCEPT ![w].memory_growth = @ + Len(chat_memory') - Len(chat_memory)]
    /\ UNCHANGED <<extraction, parser, request_history, last_raw_response, current_worker,
                   emitted, main_queue, last_parameters, last_sequence, history,
                   is_generating, dispatched>>

\* Extracts without the test of is_generation_request.
Extracts_Always(wk) == Truthy(wk.response_text)

\* "if response_text: if self.is_generation_request:" - whether run() calls
\* extract_command_sequence.
Extracts(wk) == Truthy(wk.response_text) /\ wk.is_generation_request

\* Whether the "if data:" block is entered, and whether pd.DataFrame(data)
\* raises in it (a dict of scalars is a ValueError).
HasData(wk) ==
    /\ Extracts(wk)
    /\ LET r == extract_command_sequence(wk.response_text)
       IN ~r.raised /\ (r.isdict \/ r.data # << >>)
FrameRaises(wk) ==
    HasData(wk) /\ extract_command_sequence(wk.response_text).isdict

\* df when run() reaches self.progress.emit(100).
ResultFrame(wk) ==
    IF HasData(wk) THEN BuildFrame(extract_command_sequence(wk.response_text).data)
    ELSE EmptyFrame

\* error_message or extract_error_message(response_text) or "Failed to generate sequence"
FailureMessage(wk) ==
    IF wk.error_message # "" THEN wk.error_message
    ELSE IF extract_error_message(wk.response_text) # ""
         THEN extract_error_message(wk.response_text)
         ELSE "Failed to generate sequence"

\* The arguments of the finished signal at the end of run().
FinalResult(wk) ==
    IF wk.is_generation_request
    THEN IF FrameIsEmpty(ResultFrame(wk))
         THEN [df |-> ResultFrame(wk), error |-> FailureMessage(wk)]
         ELSE [df |-> ResultFrame(wk), error |-> ""]
    ELSE [df |-> MessageFrame(wk.response_text), error |-> ""]

\* run() after the retry loop: progress 80, the table, progress 100 and the
\* finished signal; an exception raised on the way ends the thread instead.
Finish(w) ==
    /\ workers[w].pc = "finish"
    /\ LET wk == workers[w]
           table == << Signal("status", <<"Creating result table">>),
                       Signal("progress", 90) >>
       IN
       /\ obs' = [obs EXCEPT ![w].extract_calls = IF Extracts(wk) THEN @ + 1 ELSE @]
       /\ IF Extracts(wk) /\ extract_command_sequence(wk.response_text).raised
          THEN /\ emitted' = [emitted EXCEPT ![w] = @ \o << Signal("progress", 80) >>]
               /\ workers' = [workers EXCEPT ![w].pc = "crashed"]
               /\ UNCHANGED main_queue
          ELSE IF FrameRaises(wk)
          THEN /\ emitted' = [emitted EXCEPT ![w] =
                     @ \o << Signal("progress", 80) >> \o table]
               /\ workers' = [workers EXCEPT ![w].pc = "crashed"]
               /\ UNCHANGED main_queue
          ELSE /\ EmitFinished(w,
                     emitted[w] \o << Signal("progress", 80) >>
                        \o (IF HasData(wk) THEN table ELSE << >>)
                        \o << Signal("progress", 100) >>,
                     FinalResult(wk).df, FinalResult(wk).error)
               /\ workers' = [workers EXCEPT ![w].pc = "done"]
    /\ UNCHANGED <<extraction, parser, chat_memory, request_history, last_raw_response, current_worker,
                   last_parameters, last_sequence, history, is_generating,
                   dispatched>>

\* ============================================================ specification
\* The steps of the worker threads.
WorkerStep ==
    \/ \E w \in Ops : Prepare(w)
    \/ \E w \in Ops : LoopTop(w)
    \/ \E w \in Ops, b \in Bodies : Respond(w, b)
    \/ \E w \in Ops : Finish(w)

\* The API client driven by a caller of its own: parameter sets that carry
\* the 'prompt', any max_retries, cancel_current_operation at any time.
Next ==
    \/ \E p \in ApiParameters, r \in RetryChoices : GenerateSequenceAsync(p, r)
    \/ CancelCurrentOperation
    \/ WorkerStep

Spec == Init /\ [][Next]_vars

\* The application: the chat panel drives the SequenceGenerator, which
\* drives the API client; finished signals come back through the foreground
\* thread's queue.
PanelNext ==
    \/ \E u \in Utterances : OnGenerateClicked(u)
    \/ OnCancelClicked
    \/ DeliverFinished
    \/ WorkerStep

PanelSpec == Init /\ [][PanelNext]_vars

\* ========================================== one operation with long retries
\* Largest max_retries of the operation whose backoff sleeps are followed.
MaxAttempts == 4

\* A caller dispatches the one operation of the client, with its callbacks
\* and a max_retries of its choice.
DispatchOnce(parameters, max_retries) ==
    /\ dispatched = 0
    /\ StartWorker(1, parameters, max_retries, "caller",
                   original_prompt(parameters))
    /\ UNCHANGED <<extraction, parser, chat_memory, request_history,
                   last_raw_response, emitted, main_queue, last_parameters,
                   last_sequence, history, is_generating>>

BackoffNext ==
    \/ \E p \in ApiParameters, r \in 1..MaxAttempts : DispatchOnce(p, r)
    \/ CancelCurrentOperation
    \/ WorkerStep

BackoffSpec == Init /\ [][BackoffNext]_vars

\* ============================================ a session at the chat panel
\* The user generates, cancels and generates again: up to MaxWorkers
\* operations in one session.
OnGenerateClickedAgain(user_input) == GenerateClicked(user_input, MaxWorkers)

SessionNext ==
    \/ \E u \in Utterances : OnGenerateClickedAgain(u)
    \/ OnCancelClicked
    \/ DeliverFinished
    \/ WorkerStep

SessionSpec == Init /\ [][SessionNext]_vars

\* ======================================= operations that supersede each other
\* The two parameter texts the callers' operations put into the memory.
MemoryEntries ==
    [i \in 1..MEMORY_LIMIT |->
        IF i % 2 = 1
        THEN format_parameter_text(
                 extract_parameters(<<"how">>) \o << <<"prompt", <<"how">> >> >>)
        ELSE format_parameter_text(
                 extract_parameters(<<"compress">>) \o << <<"prompt", <<"compress">> >> >>)]

\* chat_memory as earlier operations of the same client have left it: empty,
\* one entry short of the limit, and at the limit.
EarlierMemories ==
    { << >>, Slice(MemoryEntries, 2, MEMORY_LIMIT), MemoryEntries }

ConcurrentInit ==
    /\ Constructed
    /\ chat_memory \in EarlierMemories
    /\ NothingFollowed

\* A caller dispatches an operation with max_retries=1 and its callbacks,
\* whether or not an earlier operation of the client is still pending.
Dispatch(parameters) ==
    /\ dispatched < MaxWorkers
    /\ StartWorker(dispatched + 1, parameters, 1, "caller",
                   original_prompt(parameters))
    /\ UNCHANGED <<extraction, parser, chat_memory, request_history, last_raw_response,
                   emitted, main_queue, last_parameters, last_sequence, history,
                   is_generating>>

ConcurrentNext ==
    \/ \E p \in ApiParameters : Dispatch(p)
    \/ CancelCurrentOperation
    \/ WorkerStep
    \/ \E w \in Ops : Truncate(w)

ConcurrentSpec == ConcurrentInit /\ [][ConcurrentNext]_vars

\* ================================== one operation after earlier operations
\* Largest number of entries earlier operations have left in the memory.
MaxMemory == 4

\* The client with a memory of any length up to MaxMemory.
ContextInit ==
    /\ Constructed
    /\ chat_memory \in { Slice(MemoryEntries, 1, n) : n \in 0..MaxMemory }
    /\ NothingFollowed

ContextSpec == ContextInit /\ [][BackoffNext]_vars

\* ============================================== the parser on its own
\* Largest number of elements of a response array.
MaxRows == 2

\* Records a model answers with, besides GoodRow and BackfillRow: an empty
\* code with a description of the vocabulary, with a description that holds
\* two of them, and with one that holds none; the code under the key 'Cmd';
\* the keys in another order; a code that is not of the vocabulary; both
\* code keys, one with a code and the other empty.
ZeroForceRow ==
    << <<"Row", <<"R02">> >>, <<"CMD", << >> >>,
       <<"Description", <<"Zero Force">> >> >>
TwoMatchRow ==
    << <<"Row", <<"R03">> >>, <<"CMD", << >> >>,
       <<"Description", <<"Zero Displacement", " then ", "Zero Force">> >> >>
NoMatchRow ==
    << <<"Row", <<"R04">> >>, <<"CMD", << >> >>,
       <<"Description", <<"Wiggle">> >>, <<"Unit", <<"mm">> >> >>
CmdRow ==
    << <<"Row", <<"R05">> >>, <<"Cmd", <<"TH">> >>,
       <<"Description", <<"Threshold (Search Contact)">> >>,
       <<"Condition", <<"10">> >>, <<"Unit", <<"N">> >> >>
ReorderedRow ==
    << <<"Speed rpm", <<"10">> >>, <<"Description", <<"Time Delay">> >>,
       <<"CMD", <<"TD">> >>, <<"Row", <<"R06">> >> >>
UnknownCodeRow ==
    << <<"Row", <<"R07">> >>, <<"CMD", <<"XYZ">> >>,
       <<"Description", <<"Wiggle">> >>, <<"Condition", << >> >>,
       <<"Unit", << >> >>, <<"Tolerance", << >> >>, <<"Speed rpm", << >> >> >>

BothKeysRow ==
    << <<"Row", <<"R08">> >>, <<"Cmd", <<"TH">> >>, <<"CMD", << >> >>,
       <<"Description", <<"Zero Force">> >> >>

ParserElements ==
    { Element("object", r) :
        r \in {GoodRow, BackfillRow, ZeroForceRow, TwoMatchRow, NoMatchRow,
               CmdRow, ReorderedRow, UnknownCodeRow, BothKeysRow} }
    \cup { Element("number", << >>) }

\* The arrays of at most MaxRows elements.
ParserArrays == UNION { [1..n -> ParserElements] : n \in 0..MaxRows }

\* The response texts the parser is given: every array bare, fenced and
\* embedded in prose, and the texts that hold no array.
ParserTexts ==
    { Text(k, a, << >>) : k \in {"array", "fence", "embedded"}, a \in ParserArrays }
    \cup { Text(k, << >>, << >>) :
             k \in {"empty", "prose", "broken", "object", "empty_fence"} }

ParserInit ==
    /\ Idle
    /\ parser \in { [NoParse EXCEPT !.stage = "text", !.text = t] : t \in ParserTexts }
    /\ extraction = NoExtraction

\* data = extract_command_sequence(response_text)
ExtractCommandSequence ==
    /\ parser.stage = "text"
    /\ LET r == extract_command_sequence(parser.text)
       IN parser' = [parser EXCEPT
             !.stage = IF r.raised THEN "extract_raised" ELSE "extracted",
             !.result = r]
    /\ UNCHANGED <<extraction, chat_memory, request_history, last_raw_response,
                   current_worker, workers, emitted, main_queue, last_parameters,
                   last_sequence, history, is_generating, dispatched, obs>>

\* "if data:" with data true: pd.DataFrame(data), the renames, the added
\* columns and the reordering; a dict of scalars makes pd.DataFrame raise.
CreateResultTable ==
    /\ parser.stage = "extracted"
    /\ parser.result.isdict \/ parser.result.data # << >>
    /\ parser' =
          IF parser.result.isdict
          THEN [parser EXCEPT !.stage = "frame_raised"]
          ELSE [parser EXCEPT !.stage = "framed",
                              !.df = BuildFrame(parser.result.data)]
    /\ UNCHANGED <<extraction, chat_memory, request_history, last_raw_response,
                   current_worker, workers, emitted, main_queue, last_parameters,
                   last_sequence, history, is_generating, dispatched, obs>>

ParserNext == ExtractCommandSequence \/ CreateResultTable

ParserSpec == ParserInit /\ [][ParserNext]_vars

\* ===================================== extract_parameters on its own
\* Largest number of fragments of a text given to extract_parameters.
MaxWords == 4

\* What the texts are made of: words of the two keyword classes in several
\* cases, a word ending that glues to the word before it, a word of neither
\* class, and fragments that are not word characters.
Fragments == {"COMPRESS", "PRESS", "tension", "Pull", "ing", "the", " ", "-"}

TypedTexts == UNION { [1..n -> Fragments] : n \in 0..MaxWords }

ExtractionInit ==
    /\ Idle
    /\ parser = NoParse
    /\ extraction \in { [NoExtraction EXCEPT !.stage = "given", !.text = t] :
                          t \in TypedTexts }

\* parameters = extract_parameters(text)
ExtractParameters ==
    /\ extraction.stage = "given"
    /\ extraction' = [extraction EXCEPT
          !.stage = "extracted",
          !.parameters = extract_parameters(extraction.text)]
    /\ UNCHANGED <<parser, chat_memory, request_history, last_raw_response,
                   current_worker, workers, emitted, main_queue, last_parameters,
                   last_sequence, history, is_generating, dispatched, obs>>

ExtractionNext == ExtractParameters

ExtractionSpec == ExtractionInit /\ [][ExtractionNext]_vars

\* ================================================================== claims
\* The worker of op w exists and has classified its request.
Prepared(w) == workers[w].pc \notin {"unborn", "start"}
\* run() of op w has returned after its finished signal.
Done(w) == workers[w].pc = "done"
\* The arguments of the finished signal of op w.
Terminal(w) == FinishedOf(w)[1].value
TerminalIsCancelled(w) ==
    FrameIsEmpty(Terminal(w).df) /\ Terminal(w).error = "Operation cancelled"

\* A text that holds a parsable, non-empty array of row objects.
ParsableRows(text) ==
    /\ text.kind \in {"array", "fence", "embedded"}
    /\ text.elems # << >>
    /\ \A i \in 1..Len(text.elems) : text.elems[i].type = "object"

\* Every completed send attempt of op w ended in a transport error.
AllTransport(w) ==
    /\ obs[w].outcomes # << >>
    /\ \A i \in 1..Len(obs[w].outcomes) : obs[w].outcomes[i] = "transport"

\* The ways a body can fail to be the expected JSON.
ContentFailures == {"bad_json", "bad_json_legacy", "no_choices", "empty_choices"}

\* C1: an operation whose terminal notification reports a failure or the
\* cancellation leaves chat_memory as it was when the operation was dispatched.
C1_FailedOperationLeavesMemory ==
    \A w \in Ops :
        (Done(w) /\ Terminal(w).error # "")
            => chat_memory = obs[w].memory_at_dispatch

\* C2: a run() that has ended has emitted exactly one finished signal,
\* whatever the responses were (no exception ends the thread without it).
C2_EveryRunEndsWithOneFinished ==
    \A w \in Ops : Ended(w) => Len(FinishedOf(w)) = 1

\* C3: the worker never issues more than max_retries send attempts; with
\* max_retries = 3, three attempts that all ended in a transport error leave
\* the worker past the loop with the request error recorded, no response, no
\* fourth send and no write to chat_memory, and a worker that was not
\* cancelled does not stop before the third.
C3_RetryBudget ==
    \A w \in Ops :
        /\ obs[w].sends <= workers[w].max_retries
        /\ Len(obs[w].outcomes) <= obs[w].sends
        /\ (workers[w].max_retries = 3 /\ AllTransport(w)) =>
              /\ (Len(obs[w].outcomes) = 3 =>
                    /\ workers[w].pc \in {"finish", "done"}
                    /\ obs[w].sends = 3
                    /\ workers[w].error_message = "Request error"
                    /\ ~Truthy(workers[w].response_text)
                    /\ obs[w].memory_writes = 0)
              /\ ((Ended(w) /\ ~workers[w].is_cancelled) =>
                    Len(obs[w].outcomes) = 3)

C3_Witness ==
    \E w \in Ops :
        /\ workers[w].max_retries = 3
        /\ Done(w)
        /\ obs[w].outcomes = <<"transport", "transport", "transport">>
        /\ ~workers[w].is_cancelled

\* C4: when every allowed attempt ended in a transport error, the terminal
\* notification carries a non-empty error message and an empty table, for
\* generation and for conversational requests.
C4_ExhaustionReportsFailure ==
    \A w \in Ops :
        (Done(w) /\ AllTransport(w)
            /\ Len(obs[w].outcomes) = workers[w].max_retries)
            => (Terminal(w).error # "" /\ FrameIsEmpty(Terminal(w).df))

\* C5: with max_retries = 3, a generation request whose attempts 1 and 2
\* ended in transport errors and whose attempt 3 returned a parsable row
\* array ends with a finished signal that carries a non-empty table and an
\* empty error message, and the worker made chat_memory longer by exactly
\* one entry, its parameter text.
C5_SuccessOnThirdAttempt ==
    \A w \in Ops :
        (/\ workers[w].max_retries = 3
         /\ workers[w].is_generation_request
         /\ obs[w].outcomes = <<"transport", "transport", "ok">>
         /\ ParsableRows(workers[w].response_text))
        => /\ workers[w].pc \in {"finish", "done"}
           /\ obs[w].memory_writes = 1
           /\ obs[w].memory_growth = 1
           /\ chat_memory # << >>
           /\ \E i \in 1..Len(chat_memory) : chat_memory[i] = workers[w].parameter_text
           /\ Done(w) =>
                 /\ Len(FinishedOf(w)) = 1
                 /\ ~FrameIsEmpty(Terminal(w).df)
                 /\ Terminal(w).error = ""

C5_Witness ==
    \E w \in Ops :
        /\ workers[w].max_retries = 3
        /\ workers[w].is_generation_request
        /\ obs[w].outcomes = <<"transport", "transport", "ok">>
        /\ ParsableRows(workers[w].response_text)
        /\ Done(w)

\* C6: an operation whose cancel() came before its first send attempt had
\* completed ends with the finished signal (empty table, 'Operation
\* cancelled') and without a write to chat_memory.
C6_EarlyCancelIsTerminalCancelled ==
    \A w \in Ops :
        (Done(w) /\ obs[w].cancelled_early)
            => /\ TerminalIsCancelled(w)
               /\ obs[w].memory_writes = 0

\* C7: after an attempt that ended in a content failure no further send is
\* issued, and the operation ends with a failure notification.
C7_ContentFailureIsNotRetried ==
    \A w \in Ops :
        \A i \in 1..Len(obs[w].outcomes) :
            obs[w].outcomes[i] \in ContentFailures
                => /\ obs[w].sends = i
                   /\ workers[w].pc \in {"finish", "done"}
                   /\ Done(w) => Terminal(w).error # ""

\* C8: the progress values of an operation never decrease, stay within
\* 0..100, and the last one before the finished signal is 100.
C8_ProgressMonotoneAndComplete ==
    \A w \in Ops :
        LET p == ProgressOf(w)
        IN /\ \A i \in 1..Len(p) : p[i].value \in 0..100
           /\ \A i \in 1..(Len(p) - 1) : p[i].value <= p[i + 1].value
           /\ FinishedOf(w) # << >> => (p # << >> /\ p[Len(p)].value = 100)

\* The terminal result of a conversational operation that was not cancelled:
\* the single CHAT row with the response text, and no error message.
IsChatResult(w) ==
    /\ Terminal(w).error = ""
    /\ Terminal(w).df = MessageFrame(workers[w].response_text)

\* C9 as stated: a conversational operation never calls
\* extract_command_sequence, and its terminal result is always the single
\* CHAT row with the response text and an empty error message.
C9_ChatResultAlways ==
    \A w \in Ops :
        (Prepared(w) /\ ~workers[w].is_generation_request)
            => /\ obs[w].extract_calls = 0
               /\ FinishedOf(w) # << >> => IsChatResult(w)

\* C9, amended: a conversational operation never calls
\* extract_command_sequence; its terminal result is the single CHAT row with
\* the response text and an empty error message, unless the cancellation
\* flag was found set at the top of an iteration, and then it is the empty
\* table with 'Operation cancelled'.
C9_ChatResultUnlessCancelled ==
    \A w \in Ops :
        (Prepared(w) /\ ~workers[w].is_generation_request)
            => /\ obs[w].extract_calls = 0
               /\ FinishedOf(w) # << >> =>
                     IF Terminal(w).error = "Operation cancelled"
                     THEN workers[w].is_cancelled /\ FrameIsEmpty(Terminal(w).df)
                     ELSE IsChatResult(w)

C9_Witness ==
    \E w \in Ops :
        /\ ~workers[w].is_generation_request
        /\ Done(w)
        /\ Truthy(workers[w].response_text)
        /\ IsChatResult(w)

\* C10: an operation submitted through the chat panel is classified as a
\* generation request exactly when the utterance holds a trigger phrase.
C10_PanelClassification ==
    \A w \in Ops :
        (Prepared(w) /\ workers[w].callback = "sequence_generator")
            => (workers[w].is_generation_request <=> HasIndicator(obs[w].utterance))

\* extract_command_sequence returns the empty list for the text: no row is
\* recoverable from it.
ZeroRows(text) ==
    LET r == extract_command_sequence(text)
    IN ~r.raised /\ ~r.isdict /\ r.data = << >>

\* The message extract_error_message mines from a text, or the generic one.
MinedMessage(text) ==
    IF extract_error_message(text) # "" THEN extract_error_message(text)
    ELSE "Failed to generate sequence"

\* C11: a generation request whose last attempt returned a response with no
\* recoverable row ends with an empty table and the message mined from that
\* response text (the capture of the first error pattern that matches, else
\* 'Failed to generate sequence'), never a message of an earlier attempt.
C11_ZeroRowsMessageIsMined ==
    \A w \in Ops :
        (/\ Done(w)
         /\ workers[w].is_generation_request
         /\ obs[w].outcomes # << >>
         /\ obs[w].outcomes[Len(obs[w].outcomes)] = "ok"
         /\ ZeroRows(workers[w].response_text))
        => /\ FrameIsEmpty(Terminal(w).df)
           /\ Terminal(w).error = MinedMessage(workers[w].response_text)

\* extract_command_sequence has returned for the text that is followed.
Extracted == parser.stage \in {"extracted", "framed", "frame_raised"}

\* C12: extract_command_sequence raises for no text; it returns a list, and
\* the empty list when the text holds no parsable array of row objects.
C12_ExtractNeverRaises ==
    /\ parser.stage # "extract_raised"
    /\ Extracted =>
          /\ ~parser.result.isdict
          /\ ~ParsableRows(parser.text) => parser.result.data = << >>

\* The table of the text that is followed has been built.
Framed == parser.stage = "framed"
\* Record i that extract_command_sequence returned, the row of the table
\* built from it, and element i of the array as the text held it.
RecordOf(i) == parser.result.data[i]
RowOf(i) == parser.df.rows[i]
GivenOf(i) == parser.text.elems[i].items

\* The key a required column is also accepted under.
Alias(col) ==
    CASE col = "CMD" -> "Cmd"
      [] col = "Speed rpm" -> "Speed"
      [] OTHER -> col
\* The record carries the field neither under its name nor under its alias.
AbsentFrom(record, col) == ~HasKey(record, col) /\ ~HasKey(record, Alias(col))

\* C16: every row of a built table has the seven required fields in their
\* fixed order, and a field the input record does not carry holds the empty
\* string in the row, whatever the other records carry.
C16_SevenFieldsEmptyWhenAbsent ==
    Framed =>
        \A i \in 1..Len(parser.df.rows) :
            /\ [c \in 1..Len(RowOf(i)) |-> RowOf(i)[c][1]] = required_columns
            /\ \A c \in 1..Len(required_columns) :
                  AbsentFrom(RecordOf(i), required_columns[c])
                      => Get(RowOf(i), required_columns[c], NaN) = << >>

\* C17: a record with the key 'Cmd' and without the key 'CMD' gives a row
\* whose CMD is the value of 'Cmd' and whose other required fields are those
\* of the record, whatever keys the other records use.
C17_CmdKeyIsReconciled ==
    Framed =>
        \A i \in 1..Len(parser.df.rows) :
            (HasKey(RecordOf(i), "Cmd") /\ ~HasKey(RecordOf(i), "CMD"))
                => /\ Get(RowOf(i), "CMD", NaN) = Get(RecordOf(i), "Cmd", << >>)
                   /\ \A c \in 1..Len(required_columns) :
                         HasKey(RecordOf(i), required_columns[c])
                             => Get(RowOf(i), required_columns[c], NaN)
                                   = Get(RecordOf(i), required_columns[c], << >>)

\* The code of the first entry of the vocabulary, in declaration order,
\* whose description is, or is contained in, the description.
FirstVocabularyMatch(description) ==
    LET hits == {k \in 1..Len(COMMANDS) : Contains(description, <<COMMANDS[k][2]>>)}
    IN IF hits = {} THEN << >> ELSE <<COMMANDS[Min(hits)][1]>>

\* The command-code keys of a record.
CodeKeys(record) == {"Cmd", "CMD"} \cap Keys(record)
\* The record has one command-code key, and its value is empty.
EmptyCode(record) ==
    /\ Cardinality(CodeKeys(record)) = 1
    /\ \A key \in CodeKeys(record) : Get(record, key, << >>) = << >>
CodeOf(record) == Get(record, CHOOSE key \in CodeKeys(record) : TRUE, << >>)

Codes == {COMMANDS[k][1] : k \in 1..Len(COMMANDS)}

\* C19: every row of a non-empty built table, which run() delivers as the
\* successful result, has a CMD that is one of the codes of the vocabulary.
C19_DeliveredCodesAreVocabulary ==
    (Framed /\ ~FrameIsEmpty(parser.df)) =>
        \A i \in 1..Len(parser.df.rows) :
            \E code \in Codes : Get(RowOf(i), "CMD", NaN) = <<code>>

\* C20: an array in a json code fence gives the same result as the bare
\* array text (the same rows, or the same exception).
C20_FencedEqualsBare ==
    (parser.stage # "text" /\ parser.text.kind = "fence") =>
        parser.result =
            extract_command_sequence(Text("array", parser.text.elems, parser.text.error))

C20_Witness ==
    /\ parser.stage = "extracted"
    /\ parser.text.kind = "fence"
    /\ Len(parser.result.data) = MaxRows

\* The worker of op w has its request in flight.
Sending(w) == workers[w].pc = "sending"

\* C13: no two workers of the client have a request in flight at the same
\* moment (which the claim's "at most one worker between dispatch and
\* terminal notification" implies).
C13_OneWorkerSending ==
    \A v, w \in Ops : (Sending(v) /\ Sending(w)) => v = w

\* C14: once the worker of operation N+1 has emitted a progress, status or
\* finished signal, the worker of the superseded operation N, which is
\* connected to the same callbacks, emits no further signal.
C14_NoSignalOfSupersededOperation ==
    [][ \A n \in Ops :
          (n + 1 \in Ops /\ emitted[n + 1] # << >>) => emitted'[n] = emitted[n]
      ]_vars

\* The parameter texts the workers appended, from the rank-th append on.
RECURSIVE AppendsFrom(_)
AppendsFrom(rank) ==
    IF \E w \in Ops : obs[w].append_rank = rank
    THEN << workers[CHOOSE w \in Ops : obs[w].append_rank = rank].parameter_text >>
            \o AppendsFrom(rank + 1)
    ELSE << >>

\* Everything appended to the memory so far, in insertion order: what the
\* earlier operations left, then the appends of the workers.
AppendLog == obs[1].memory_at_dispatch \o AppendsFrom(1)

\* Operations were dispatched and every one of them has ended.
AllCompleted == dispatched >= 1 /\ \A w \in Ops : ~Running(w)

\* C15: after the operations have completed chat_memory holds at most 10
\* entries, and they are the most recently appended ones in insertion order.
C15_MemoryIsLastTenAppends ==
    AllCompleted =>
        /\ Len(chat_memory) <= MEMORY_LIMIT
        /\ chat_memory = LastN(AppendLog, MEMORY_LIMIT)

\* json.dumps of a list of records: one array literal and nothing else, its
\* elements the records as objects with their items in key order.
Dumps(data) ==
    Text("array", [i \in 1..Len(data) |-> Element("object", data[i])], << >>)

\* extract_command_sequence returned a non-empty list for the text that is
\* followed.
ReturnedRows ==
    Extracted /\ ~parser.result.isdict /\ parser.result.data # << >>

\* C21: for every text on which extract_command_sequence returns a non-empty
\* row list, applying it to the JSON serialization of that list returns the
\* same list.
C21_ReparseIsIdentity ==
    ReturnedRows =>
        extract_command_sequence(Dumps(parser.result.data))
            = [raised |-> FALSE, isdict |-> FALSE, data |-> parser.result.data]

C21_Witness ==
    /\ ReturnedRows
    /\ parser.text.kind \in {"fence", "embedded"}
    /\ \E i \in 1..Len(parser.result.data) :
          /\ GivenOf(i) = BackfillRow
          /\ Get(RecordOf(i), "Cmd", << >>) = <<"TH">>

\* C30: the back-fill changes no code that is there: each of the keys 'Cmd'
\* and 'CMD' that holds a non-empty value in a record of the array holds the
\* same value in the returned record, also when the record carries both
\* keys, one empty and one not.
C30_BackfillKeepsNonEmptyCode ==
    Extracted =>
        \A i \in 1..Len(parser.result.data) :
            \A key \in CodeKeys(GivenOf(i)) :
                Get(GivenOf(i), key, << >>) # << >>
                    => Get(RecordOf(i), key, << >>) = Get(GivenOf(i), key, << >>)

\* extract_parameters has returned for the text that is followed.
ParametersExtracted == extraction.stage = "extracted"
\* The Test Type of the returned parameters, << >> when the key is absent.
TestType == Get(extraction.parameters, "Test Type", << >>)
MatchesTension == SearchWord(tension_words, extraction.text)
MatchesCompression == SearchWord(compression_words, extraction.text)

CancelledAtLoopTop(w) == workers[w].pc = "loop" /\ workers[w].is_cancelled

\* C23: when the cancellation flag is set as an iteration of the retry loop
\* begins, the worker issues no send in that iteration or later and ends
\* with the finished signal (empty table, 'Operation cancelled'); and a
\* cancelled operation never ends without a finished signal.
C23_CancelIsObservedAndTerminal ==
    [][ \A w \in Ops :
          /\ (CancelledAtLoopTop(w) /\ workers'[w] # workers[w])
                => /\ Done(w)'
                   /\ TerminalIsCancelled(w)'
                   /\ Len(FinishedOf(w))' = 1
                   /\ obs'[w].sends = obs[w].sends
          /\ (Ended(w)' /\ workers'[w].is_cancelled) => FinishedOf(w)' # << >>
      ]_vars

\* C24: after a transport error on the i-th attempt (counted from 1) the
\* worker sleeps 2^(i-1) seconds before the next attempt, and it does not
\* sleep when that attempt was the last allowed one or when the cancellation
\* has been requested.
C24_BackoffSchedule ==
    [][ \A w \in Ops :
          LET i == Len(obs'[w].outcomes)
          IN (obs'[w].outcomes # obs[w].outcomes
                /\ obs'[w].outcomes[i] = "transport")
             => obs'[w].sleeps =
                   IF i < workers[w].max_retries /\ ~workers[w].is_cancelled
                   THEN Append(obs[w].sleeps, 2 ^ (i - 1))
                   ELSE obs[w].sleeps
      ]_vars

C24_Witness ==
    \E w \in Ops :
        /\ Done(w)
        /\ workers[w].max_retries = MaxAttempts
        /\ Len(obs[w].outcomes) = MaxAttempts
        /\ AllTransport(w)
        /\ obs[w].sleeps = <<1, 2, 4>>

\* The status signals of a worker, in emission order, and those of its sends.
StatusOf(w) == SelectSeq(emitted[w], LAMBDA e : e.signal = "status")
IsSending(e) == e.signal = "status" /\ e.value[1] = "Sending request"
IsProcessing(e) == e.signal = "status" /\ e.value = <<"Processing response">>
SendingOf(w) == SelectSeq(emitted[w], LAMBDA e : IsSending(e))

\* C25: the signals of one operation are emitted in the order 'Preparing
\* request' first, then 'Sending request (attempt i/max)' with i = 1, 2, ...
\* increasing by one, 'Processing response' only after the send of the same
\* attempt, and the finished signal last: nothing follows it.
C25_NotificationOrder ==
    \A w \in Ops :
        /\ emitted[w] # << >>
              => /\ emitted[w][1].signal = "status"
                 /\ emitted[w][1].value = <<"Preparing request">>
        /\ \A k \in 1..Len(SendingOf(w)) :
              SendingOf(w)[k].value = <<"Sending request", k, workers[w].max_retries>>
        /\ \A j \in 1..Len(StatusOf(w)) :
              IsProcessing(StatusOf(w)[j])
                  => /\ j > 1
                     /\ IsSending(StatusOf(w)[j - 1])
                     /\ StatusOf(w)[j - 1].value[2] = workers[w].attempt + 1
        /\ \A j \in 1..Len(emitted[w]) :
              emitted[w][j].signal = "finished" => j = Len(emitted[w])

C25_Witness ==
    \E w \in Ops :
        /\ Done(w)
        /\ obs[w].outcomes = <<"transport", "ok">>
        /\ Len(SendingOf(w)) = 2
        /\ IsProcessing(StatusOf(w)[Len(StatusOf(w))])
        /\ emitted[w][Len(emitted[w])].signal = "finished"

\* The worker of op w composes its prompt in this step.
Prepares(w) == workers[w].pc = "start" /\ workers'[w].pc = "loop"

\* The last min(3, n) entries of an n-entry memory, in insertion order.
LastThree(memory) ==
    LET n == Len(memory)
        k == IF n < 3 THEN n ELSE 3
    IN [i \in 1..k |-> memory[n - k + i]]

\* C26: the context a worker appends to its prompt is made of the last
\* min(3, n) entries of the n-entry memory, in insertion order, each
\* starting on a line of its own; for an empty memory nothing is appended.
C26_ContextIsLastThree ==
    [][ \A w \in Ops :
          Prepares(w) =>
              workers'[w].context =
                  IF chat_memory = << >> THEN << >>
                  ELSE << << >>, <<"Previous context:">> >>
                          \o JoinLines(LastThree(chat_memory))
      ]_vars

C26_Witness ==
    \E w \in Ops :
        /\ Prepared(w)
        /\ Len(obs[w].memory_at_dispatch) > CONTEXT_ENTRIES
        /\ workers[w].context =
              << << >>, <<"Previous context:">> >>
                 \o JoinLines(LastThree(obs[w].memory_at_dispatch))

\* The worker of op w has logged its payload in request_history.
Logged(w) == \E i \in 1..Len(request_history) : request_history[i] = w

\* C27: request_history is written only by a worker whose operation
\* completes successfully: an operation whose terminal notification reports
\* a failure or the cancellation has left no entry in it.
C27_FailedOperationLeavesHistory ==
    \A w \in Ops :
        (Done(w) /\ Terminal(w).error # "") => ~Logged(w)

\* The foreground thread records a generated sequence in this step.
Records == history' # history

\* C28: every TestSequence the SequenceGenerator records pairs the rows with
\* the parameters of the request whose response produced them, also when a
\* newer request was dispatched before the older completion arrived, and the
\* completion of a cancelled or superseded operation is never recorded.
C28_RecordedSequenceIsOfItsRequest ==
    [][ Records =>
          /\ last_sequence' = history'[Len(history')]
          /\ last_sequence'.parameters = last_sequence'.from
          /\ ~workers[last_sequence'.from].is_cancelled
          /\ current_worker = last_sequence'.from
      ]_vars

\* Op w was started by the chat panel, is still running and has not been
\* cancelled.
PanelOperationInFlight(w) ==
    /\ workers[w].callback = "sequence_generator"
    /\ Running(w)
    /\ ~workers[w].is_cancelled

\* C29: is_generating is true whenever an operation started by the panel is
\* in flight and has not been cancelled; the late finished signal of a
\* cancelled operation does not reset it while a newer operation is in flight.
C29_GeneratingWhileInFlight ==
    \A w \in Ops : PanelOperationInFlight(w) => is_generating

====
